---- MODULE Spec2Model ----
(***************************************************************************)
(* A model of the ray caster in src/app/main.py.                           *)
(*                                                                         *)
(* Numbers.  The program computes with Python floats.  The model computes  *)
(* with decimal fixed-point numbers: the number v is held as the integer   *)
(* v * Scale, every operation is carried out as the code carries it out    *)
(* and its result is rounded to the nearest multiple of 1/Scale, as a      *)
(* float operation rounds to the nearest float.  Integers, halves, thirds, *)
(* fifths and their products are exact; math.sqrt of a perfect square is   *)
(* exact.                                                                  *)
(***************************************************************************)
EXTENDS Integers, Sequences, FiniteSets

VARIABLES
    scene,              \* main: the list of objects (line 185)
    lights,             \* main: the list of lights (line 196)
    x, y,               \* main: the pixel loop counters (lines 202, 205)
    data,               \* main: the pixel buffer img.load() (line 182)
    writes,             \* history: how often data[x, y] was assigned
    pc,                 \* main: the position in main
    origin,             \* main: the primary ray's origin (line 207)
    hit,                \* main: the primary hit (line 208)
    color,              \* main: the accumulated color (line 214)
    scene_without_obj,  \* main: the reduced scene (line 216)
    li,                 \* main: the index of the light being shaded (line 218)
    call,               \* a call of one of the pure functions: its arguments
    ret                 \* that call's return value

vars == <<scene, lights, x, y, data, writes, pc, origin, hit, color,
          scene_without_obj, li, call, ret>>

mainVars == <<scene, lights, x, y, data, writes, pc, origin, hit, color,
              scene_without_obj, li>>

----------------------------------------------------------------------------
(* Fixed-point arithmetic standing for float arithmetic.                   *)

Scale == 30 * 30

Abs(n) == IF n < 0 THEN -n ELSE n

Sign(n) == IF n < 0 THEN -1 ELSE 1

\* n / d for naturals, rounded to the nearest integer.
RoundDivNat(n, d) == (2 * n + d) \div (2 * d)

\* The number k (a Python int or an exactly representable literal).
Num(k) == k * Scale

Neg(a) == -a

Add(a, b) == a + b

Sub(a, b) == a - b

\* a * b, rounded.  The product is split so that no intermediate exceeds
\* the integer range.
Mul(a, b) ==
    LET p == Abs(a)
        q == Abs(b)
    IN  Sign(a) * Sign(b)
          * ((p \div Scale) * q + RoundDivNat((p % Scale) * q, Scale))

\* a / b, rounded (b # 0: Python raises ZeroDivisionError otherwise, and
\* the callers below guard it).
Div(a, b) == Sign(a) * Sign(b) * RoundDivNat(Abs(a) * Scale, Abs(b))

\* Newton's iteration from r down to floor(sqrt(n)).
RECURSIVE Newton(_, _)
Newton(n, r) ==
    LET s == (r + n \div r) \div 2
    IN  IF s >= r THEN r ELSE Newton(n, s)

\* floor(sqrt(n)) for a natural n.
ISqrt(n) == IF n = 0 THEN 0 ELSE Newton(n, n)

\* math.sqrt(a) for a >= 0, rounded to the nearest multiple of 1/Scale.
Sqrt(a) ==
    LET n == a * Scale
        r == ISqrt(n)
    IN  IF n - r * r > r THEN r + 1 ELSE r

\* int(a): truncation toward zero.
Trunc(a) == Sign(a) * (Abs(a) \div Scale)

Max(a, b) == IF a >= b THEN a ELSE b

\* min() of a non-empty list.
Min(s) == CHOOSE m \in {s[i] : i \in 1..Len(s)} : \A i \in 1..Len(s) : m <= s[i]

----------------------------------------------------------------------------
(* solve_quadratic_equation, lines 10-38.                                  *)

\* The solver with the discriminant b*b - 4*c: the factor a is forgotten.
solve_quadratic_equation_delta_without_a(a, b, c) ==
    LET delta == Sub(Mul(b, b), Mul(Num(4), c))
    IN  IF delta > 0
        THEN LET q  == IF b > 0
                       THEN Mul(-(Scale \div 2), Add(b, Sqrt(delta)))
                       ELSE Mul(-(Scale \div 2), Sub(b, Sqrt(delta)))
                 s1 == Div(q, a)
                 s2 == Div(c, q)
             IN  <<s1, s2>>
        ELSE IF delta = 0
             THEN <<Div(Neg(b), Mul(Num(2), a))>>
             ELSE <<>>

solve_quadratic_equation(a, b, c) ==
    LET delta == Sub(Mul(b, b), Mul(Mul(Num(4), a), c))
    IN  IF delta > 0
        THEN LET q  == IF b > 0
                       THEN Mul(-(Scale \div 2), Add(b, Sqrt(delta)))
                       ELSE Mul(-(Scale \div 2), Sub(b, Sqrt(delta)))
                 s1 == Div(q, a)
                 s2 == Div(c, q)
             IN  <<s1, s2>>
        ELSE IF delta = 0
             THEN <<Div(Neg(b), Mul(Num(2), a))>>
             ELSE <<>>

----------------------------------------------------------------------------
(* Vector, lines 41-72.  A vector is a record of three numbers.            *)

Vector(vx, vy, vz) == [x |-> vx, y |-> vy, z |-> vz]

\* Vector.__add__, line 48.
Vector_add(u, v) == Vector(Add(u.x, v.x), Add(u.y, v.y), Add(u.z, v.z))

\* Vector.__sub__, line 51.
Vector_sub(u, v) == Vector(Sub(u.x, v.x), Sub(u.y, v.y), Sub(u.z, v.z))

\* Vector.__mul__, line 54.
Vector_mul(u, k) == Vector(Mul(u.x, k), Mul(u.y, k), Mul(u.z, k))

\* Vector.dot, line 66.
Vector_dot(u, v) == Add(Add(Mul(u.x, v.x), Mul(u.y, v.y)), Mul(u.z, v.z))

\* Vector.size, line 72.
Vector_size(u) == Sqrt(Add(Add(Mul(u.x, u.x), Mul(u.y, u.y)), Mul(u.z, u.z)))

\* Vector.normalize divides by size(): it raises ZeroDivisionError exactly
\* when this holds (line 58).
normalize_raises(u) == Vector_size(u) = 0

\* Vector.normalize, lines 56-58, where it does not raise.
Vector_normalize(u) ==
    LET size == Vector_size(u)
    IN  Vector(Div(u.x, size), Div(u.y, size), Div(u.z, size))

----------------------------------------------------------------------------
(* Color, lines 78-94.                                                     *)

Color(r, g, b) == [red |-> r, green |-> g, blue |-> b]

\* Color.to_rgb, line 85.
Color_to_rgb(c) == <<Trunc(c.red), Trunc(c.green), Trunc(c.blue)>>

\* Color.__mul__, line 88.
Color_mul(c, k) == Color(Mul(c.red, k), Mul(c.green, k), Mul(c.blue, k))

\* Color.__add__, line 91.
Color_add(c, d) ==
    Color(Add(c.red, d.red), Add(c.green, d.green), Add(c.blue, d.blue))

----------------------------------------------------------------------------
(* Objects, lines 97-139.  An object is a record; its field id is the      *)
(* object's identity (the reference), which the dataclass-generated        *)
(* __eq__ does not look at.                                                *)

Sphere(i, p, r, col, alb) ==
    [id |-> i, kind |-> "Sphere", color |-> col, albedo |-> alb,
     pos |-> p, radius |-> r]

Plane(i, p, n, col, alb) ==
    [id |-> i, kind |-> "Plane", color |-> col, albedo |-> alb,
     pos |-> p, normal |-> n]

\* The fields the generated __eq__ compares, in declaration order.
astuple(o) ==
    IF o.kind = "Sphere"
    THEN <<o.color, o.albedo, o.pos, o.radius>>
    ELSE <<o.color, o.albedo, o.pos, o.normal>>

\* The dataclass __eq__ of Sphere and Plane: same class, equal fields.
Object_eq(a, b) == a.kind = b.kind /\ astuple(a) = astuple(b)

\* Python's None.
None == [none |-> TRUE]

\* Hit, lines 156-160.
Hit(p, n, o) == [pos |-> p, normal |-> n, obj |-> o]

\* Sphere.intersect taking the largest root: the exit point instead of the
\* entry point.
Sphere_intersect_max_t(self, orig, direction) ==
    LET a == Num(1)
        b == Mul(Num(2), Vector_dot(direction, Vector_sub(orig, self.pos)))
        c == Sub(Vector_dot(Vector_sub(orig, self.pos),
                            Vector_sub(orig, self.pos)),
                 Mul(self.radius, self.radius))
        t_list == solve_quadratic_equation(a, b, c)
    IN  IF t_list = <<>>
        THEN None
        ELSE LET max_t == -Min([i \in 1..Len(t_list) |-> -t_list[i]])
             IN  IF max_t >= 0
                 THEN LET p == Vector_add(orig, Vector_mul(direction, max_t))
                      IN  Hit(p, Vector_sub(p, self.pos), self)
                 ELSE None

\* Sphere.intersect, lines 108-123.
Sphere_intersect(self, orig, direction) ==
    LET a == Num(1)
        b == Mul(Num(2), Vector_dot(direction, Vector_sub(orig, self.pos)))
        c == Sub(Vector_dot(Vector_sub(orig, self.pos),
                            Vector_sub(orig, self.pos)),
                 Mul(self.radius, self.radius))
        t_list == solve_quadratic_equation(a, b, c)
    IN  IF t_list = <<>>
        THEN None
        ELSE LET min_t == Min(t_list)
             IN  IF min_t >= 0
                 THEN LET p == Vector_add(orig, Vector_mul(direction, min_t))
                      IN  Hit(p, Vector_sub(p, self.pos), self)
                 ELSE None

\* Plane.intersect rejecting a plane behind the origin (t < 0), as
\* Sphere.intersect does.
Plane_intersect_forward_only(self, orig, direction) ==
    LET dir_dot_normal == Vector_dot(direction, self.normal)
    IN  IF dir_dot_normal = 0
        THEN None
        ELSE LET t == Div(Sub(Vector_dot(self.pos, self.normal),
                              Vector_dot(orig, self.normal)),
                          dir_dot_normal)
             IN  IF t < 0
                 THEN None
                 ELSE Hit(Vector_add(orig, Vector_mul(direction, t)),
                          Vector_mul(self.normal,
                                     IF dir_dot_normal > 0
                                     THEN Num(1) ELSE Num(-1)),
                          self)

\* Plane.intersect, lines 131-139.
Plane_intersect(self, orig, direction) ==
    LET dir_dot_normal == Vector_dot(direction, self.normal)
    IN  IF dir_dot_normal = 0
        THEN None
        ELSE LET t == Div(Sub(Vector_dot(self.pos, self.normal),
                              Vector_dot(orig, self.normal)),
                          dir_dot_normal)
             IN  Hit(Vector_add(orig, Vector_mul(direction, t)),
                     Vector_mul(self.normal,
                                IF dir_dot_normal > 0 THEN Num(1) ELSE Num(-1)),
                     self)

\* obj.intersect(origin, direction): dispatch on the object's class.
Object_intersect(obj, orig, direction) ==
    IF obj.kind = "Sphere"
    THEN Sphere_intersect(obj, orig, direction)
    ELSE Plane_intersect(obj, orig, direction)

----------------------------------------------------------------------------
(* The scene query intersect, lines 163-177.                               *)

\* The test of line 172 with <= for <: of two hits at the same distance the
\* later one wins.
is_closer_or_equal(best, distance) == best[1] = None \/ distance <= best[2]

\* The test of line 172: the hit at this distance replaces the closest one
\* so far; best is the pair <<closest_hit, distance_to_closest_hit>>.
is_closer(best, distance) == best[1] = None \/ distance < best[2]

\* One turn of the loop of lines 166-174, for the object obj: the pair
\* <<closest_hit, distance_to_closest_hit>> after it.
intersect_turn(orig, direction, obj, best) ==
    LET h == Object_intersect(obj, orig, direction)
    IN  IF h = None
        THEN best
        ELSE LET distance == Vector_size(Vector_sub(h.pos, orig))
             IN  IF is_closer(best, distance) THEN <<h, distance>> ELSE best

\* The loop of lines 166-174 from the k-th object on.
RECURSIVE intersect_loop(_, _, _, _, _)
intersect_loop(orig, direction, objs, k, best) ==
    IF k > Len(objs)
    THEN best
    ELSE intersect_loop(orig, direction, objs, k + 1,
                        intersect_turn(orig, direction, objs[k], best))

intersect(orig, direction, objs) ==
    intersect_loop(orig, direction, objs, 1, <<None, None>>)[1]

----------------------------------------------------------------------------
(* main, lines 180-238.  The frame of FrameSize x FrameSize pixels is      *)
(* sampled at ImgSize x ImgSize pixels: the model's unit of length is one  *)
(* pixel of the sampled frame, Px(k) is the length of k pixels of the      *)
(* program's frame, and an intensity is scaled the other way, as the       *)
(* shading multiplies it by a length (the normal of a sphere is not        *)
(* renormalized).                                                          *)

ImgSize == 10

\* img.size, line 181.
FrameSize == 500

\* math.pi, rounded.
Pi == 2827

Px(k) == (k * ImgSize * Scale) \div FrameSize

\* The intensity k/100.
Intensity(k) == RoundDivNat(k * (Scale \div 100) * FrameSize, ImgSize)

Pixels == (0..(ImgSize - 1)) \X (0..(ImgSize - 1))

\* Image.new("RGB", [500, 500], 255), line 181: every pixel is (255, 0, 0).
InitialFill == <<255, 0, 0>>

\* A list of objects, each a distinct object (its id is its place).
WithIds(objs) == [i \in 1..Len(objs) |-> [objs[i] EXCEPT !.id = i]]

\* Light, lines 150-153.
Light(p, i) == [pos |-> p, intensity |-> i]

\* camera.pos, line 184.
camera_pos == Vector(0, 0, 0)

\* background, line 194.
background == Color(0, 0, 0)

\* pov_z, line 198: math.tan(math.radians(90 / 2)) is 1.
pov_z == Div(Px(250), Num(1))

\* The scene of lines 185-193.
TheScene ==
    <<Sphere(1, Vector(Px(250), Px(250), Px(150)), Px(100),
             Color(Num(38), Num(96), Num(83)), 3 * (Scale \div 10)),
      Sphere(2, Vector(Px(400), Px(250), Px(120)), Px(100),
             Color(Num(42), Num(157), Num(143)), 8 * (Scale \div 10)),
      Sphere(3, Vector(Px(300), Px(150), Px(200)), Px(60),
             Color(Num(233), Num(196), Num(106)), 4 * (Scale \div 10)),
      Sphere(4, Vector(Px(250), Px(250), Px(130)), Px(50),
             Color(Num(244), Num(162), Num(97)), 3 * (Scale \div 10))>>

\* The lights of line 196.
TheLights == <<Light(Vector(-Px(150), -Px(150), -Px(150)), Intensity(20))>>

\* The ray of pixel (px, py), lines 207-208: its origin, and the vector that
\* is normalized into its direction.
pixel_origin(px, py) == Vector_add(camera_pos, Vector(Num(px), Num(py), 0))

pixel_aim(px, py) ==
    Vector_sub(pixel_origin(px, py), Vector(Px(250), Px(250), -pov_z))

\* The comprehension of line 216.
reduced_scene(objs, hit_obj) ==
    SelectSeq(objs, LAMBDA scene_obj : ~Object_eq(scene_obj, hit_obj))

\* The factor of lines 223-228 and 230-232:
\* albedo / math.pi * intensity * max(0, normal.dot(direction)).
diffuse(h, intensity, direction) ==
    Mul(Mul(Div(h.obj.albedo, Pi), intensity),
        Max(0, Vector_dot(h.normal, direction)))

\* Lines 220-228 without the test of line 220: an occluded light adds its
\* diffuse term too.
shade_without_shadow(c, h, light, obj_before_light) ==
    Color_add(c,
        Color_mul(h.obj.color,
            diffuse(h, light.intensity,
                    Vector_normalize(Vector_sub(light.pos, h.pos)))))

\* Lines 220-228: the color after the turn of a light, given the result
\* obj_before_light of its shadow query.
shade(c, h, light, obj_before_light) ==
    IF obj_before_light # None
    THEN c
    ELSE Color_add(c,
             Color_mul(h.obj.color,
                 diffuse(h, light.intensity,
                         Vector_normalize(Vector_sub(light.pos, h.pos)))))

\* The loops of lines 202 and 205 with the inner range one short: the last
\* row is never visited.
next_pixel_short_row(px, py) ==
    IF py + 1 < ImgSize - 1
    THEN <<px, py + 1, "pixel">>
    ELSE IF px + 1 < ImgSize
         THEN <<px + 1, 0, "pixel">>
         ELSE <<px, py, "save">>

\* The loops of lines 202 and 205 step to the next pixel, or leave.
next_pixel(px, py) ==
    IF py + 1 < ImgSize
    THEN <<px, py + 1, "pixel">>
    ELSE IF px + 1 < ImgSize
         THEN <<px + 1, 0, "pixel">>
         ELSE <<px, py, "save">>

\* data[x, y] = rgb, lines 211 and 234, and the step to the next pixel.
WritePixel(rgb) ==
    /\ data' = [data EXCEPT ![<<x, y>>] = rgb]
    /\ writes' = [writes EXCEPT ![<<x, y>>] = @ + 1]
    /\ x' = next_pixel(x, y)[1]
    /\ y' = next_pixel(x, y)[2]
    /\ pc' = next_pixel(x, y)[3]

\* ZeroDivisionError leaves main.
Raise ==
    /\ pc' = "ZeroDivisionError"
    /\ UNCHANGED <<x, y, data, writes, hit, color, scene_without_obj, li>>

\* Lines 207-216: the primary ray of pixel (x, y).
PrimaryRay ==
    /\ pc = "pixel"
    /\ origin' = pixel_origin(x, y)
    /\ IF normalize_raises(pixel_aim(x, y))
       THEN Raise
       ELSE LET h == intersect(pixel_origin(x, y),
                               Vector_normalize(pixel_aim(x, y)), scene)
            IN  /\ hit' = h
                /\ IF h = None
                   THEN /\ WritePixel(Color_to_rgb(background))
                        /\ UNCHANGED <<color, scene_without_obj, li>>
                   ELSE /\ color' = Color(0, 0, 0)
                        /\ scene_without_obj' = reduced_scene(scene, h.obj)
                        /\ li' = 1
                        /\ pc' = IF Len(lights) >= 1 THEN "light" ELSE "ambient"
                        /\ UNCHANGED <<x, y, data, writes>>
    /\ UNCHANGED <<scene, lights, call, ret>>

\* Lines 218-228: one turn of the loop over the lights.
ShadeLight ==
    /\ pc = "light"
    /\ LET light == lights[li]
           aim == Vector_sub(light.pos, hit.pos)
       IN  IF normalize_raises(aim)
           THEN Raise
           ELSE LET obj_before_light ==
                        intersect(hit.pos, Vector_normalize(aim),
                                  scene_without_obj)
                IN  /\ color' = shade(color, hit, light, obj_before_light)
                    /\ li' = li + 1
                    /\ pc' = IF li < Len(lights) THEN "light" ELSE "ambient"
                    /\ UNCHANGED <<x, y, data, writes, hit, scene_without_obj>>
    /\ UNCHANGED <<scene, lights, origin, call, ret>>

\* Lines 230-234: the ambient term and the pixel's assignment.
Ambient ==
    /\ pc = "ambient"
    /\ LET aim == Vector_sub(origin, hit.pos)
       IN  IF normalize_raises(aim)
           THEN Raise
           ELSE LET shaded ==
                        Color_add(color,
                            Color_mul(hit.obj.color,
                                diffuse(hit, Intensity(3),
                                        Vector_normalize(aim))))
                IN  /\ color' = shaded
                    /\ WritePixel(Color_to_rgb(shaded))
                    /\ UNCHANGED <<hit, scene_without_obj, li>>
    /\ UNCHANGED <<scene, lights, origin, call, ret>>

\* Lines 236-238: img.save.
Save ==
    /\ pc = "save"
    /\ pc' = "done"
    /\ UNCHANGED <<scene, lights, x, y, data, writes, origin, hit, color,
                   scene_without_obj, li, call, ret>>

Next == PrimaryRay \/ ShadeLight \/ Ambient \/ Save

\* The state of main at line 202, for a scene and lights.
MainStart(objs, lts) ==
    /\ scene = objs
    /\ lights = lts
    /\ x = 0
    /\ y = 0
    /\ data = [p \in Pixels |-> InitialFill]
    /\ writes = [p \in Pixels |-> 0]
    /\ pc = "pixel"
    /\ origin = None
    /\ hit = None
    /\ color = None
    /\ scene_without_obj = <<>>
    /\ li = 0
    /\ call = [fn |-> "main"]
    /\ ret = [done |-> FALSE]

\* main as written: the scene and the lights of lines 185-196.
InitMain == MainStart(TheScene, TheLights)

\* main is straight-line code: a step that can be taken is taken.  Save is
\* weakly fair; so are the three steps of the pixel loop, whose weak fairness
\* is written out, a step of theirs being enabled exactly when pc is at it.
Fairness ==
    /\ WF_vars(Save)
    /\ \/ []<>(pc \notin {"pixel", "light", "ambient"})
       \/ []<><<PrimaryRay \/ ShadeLight \/ Ambient>>_vars

SpecMain == InitMain /\ [][Next]_vars /\ Fairness

\* Scenes edited the way lines 190-192 are: the scene as written, with the
\* plane of line 191, with an object listed twice, with a sphere that touches
\* the image plane at a pixel.
Scenes ==
    {TheScene,
     WithIds(TheScene \o
         <<Plane(0, Vector(0, Px(400), 0), Vector(0, 0, Num(-1)),
                 Color(0, Num(128), Num(255)), 2 * (Scale \div 10))>>),
     WithIds(<<TheScene[3], TheScene[2], TheScene[3]>>),
     WithIds(<<TheScene[2],
               Sphere(0, Vector(Num(2), Num(5), Num(1)), Num(1),
                      Color(Num(38), Num(96), Num(83)), 5 * (Scale \div 10))>>)}

\* The lights as written, with a second light, and a light on the surface of
\* the first sphere, where the ray through the middle of the frame hits it.
LightLists ==
    {TheLights,
     TheLights \o <<Light(Vector(Px(650), Px(250), -Px(150)), Intensity(50))>>,
     <<Light(Vector(Px(250), Px(250), Px(50)), Intensity(20))>>}

Init == \E objs \in Scenes : \E lts \in LightLists : MainStart(objs, lts)

Spec == Init /\ [][Next]_vars

----------------------------------------------------------------------------
(* Calls of the pure functions on arguments drawn from bounded sets.       *)

MaxCoef == 3
MaxCoord == 2
MaxRadius == 2
MaxScene == 3

\* Coefficients: the multiples of 1/2 up to MaxCoef.
Coefs == {k * (Scale \div 2) : k \in (-2 * MaxCoef)..(2 * MaxCoef)}

\* Points with integer coordinates.
Coords == {Num(k) : k \in (-MaxCoord)..MaxCoord}
Points ==
    [x : Coords, y : Coords, z : Coords] \cup {Vector(0, 0, Num(-5))}

\* The unit vectors whose components are 0, 1, 3/5, 4/5, 1/3 or 2/3 up to
\* sign: their squared length is exactly 1.
Components ==
    {sg * k : sg \in {-1, 1},
              k \in {0, Scale, 3 * (Scale \div 5), 4 * (Scale \div 5),
                     Scale \div 3, 2 * (Scale \div 3)}}
UnitDirs ==
    {v \in [x : Components, y : Components, z : Components] :
        v.x * v.x + v.y * v.y + v.z * v.z = Scale * Scale}

Black == Color(0, 0, 0)

Albedo == 3 * (Scale \div 10)

Spheres ==
    {Sphere(0, p, Num(r), Black, Albedo) :
        p \in {Vector(0, 0, 0), Vector(Num(1), 0, Num(-1))},
        r \in 1..MaxRadius}

PlaneNormals ==
    {Vector(0, 0, Num(1)), Vector(0, 0, Num(-1)), Vector(0, Num(1), 0),
     Vector(3 * (Scale \div 5), 4 * (Scale \div 5), 0),
     Vector(-(Scale \div 3), 2 * (Scale \div 3), 2 * (Scale \div 3))}

Planes ==
    {Plane(0, p, n, Black, Albedo) :
        p \in {Vector(0, 0, 0), Vector(0, Num(1), Num(1))},
        n \in PlaneNormals}

\* The objects the scenes of the scene-query calls are drawn from: spheres
\* and planes along the z axis, among them a sphere and a plane that a ray
\* along the axis meets at the same point.
QueryObjects ==
    {Sphere(0, Vector(0, 0, 0), Num(1), Black, Albedo),
     Sphere(0, Vector(0, 0, Num(3)), Num(1), Black, Albedo),
     Sphere(0, Vector(Num(1), 0, Num(1)), Num(2), Black, Albedo),
     Plane(0, Vector(0, 0, Num(-1)), Vector(0, 0, Num(1)), Black, Albedo),
     Plane(0, Vector(0, Num(1), Num(1)),
           Vector(3 * (Scale \div 5), 0, 4 * (Scale \div 5)), Black, Albedo)}

QueryScenes ==
    UNION {{WithIds(objs) : objs \in [1..n -> QueryObjects]} : n \in 0..MaxScene}

\* Origins on the z axis, in front of, on and behind the objects.
QueryOrigins == {p \in Points : p.x = 0 /\ p.y = 0 /\ p.z <= 0}

NotReturned == [done |-> FALSE]

Returned(v) == [done |-> TRUE, value |-> v]

mainIdle ==
    /\ scene = <<>>
    /\ lights = <<>>
    /\ x = 0
    /\ y = 0
    /\ data = <<>>
    /\ writes = <<>>
    /\ pc = "idle"
    /\ origin = None
    /\ hit = None
    /\ color = None
    /\ scene_without_obj = <<>>
    /\ li = 0

InitCalls ==
    /\ mainIdle
    /\ ret = NotReturned
    /\ \/ \E a \in Coefs \ {0}, b \in Coefs, c \in Coefs :
             call = [fn |-> "solve_quadratic_equation", a |-> a, b |-> b, c |-> c]
       \/ \E s \in Spheres, o \in Points, d \in UnitDirs :
             call = [fn |-> "Sphere.intersect", self |-> s, origin |-> o,
                     direction |-> d]
       \/ \E p \in Planes, o \in Points, d \in UnitDirs :
             call = [fn |-> "Plane.intersect", self |-> p, origin |-> o,
                     direction |-> d]
       \/ \E sc \in QueryScenes, o \in QueryOrigins, d \in UnitDirs :
             call = [fn |-> "intersect", origin |-> o, direction |-> d,
                     scene |-> sc]

CallSolve ==
    /\ call.fn = "solve_quadratic_equation"
    /\ ret = NotReturned
    /\ ret' = Returned(solve_quadratic_equation(call.a, call.b, call.c))
    /\ UNCHANGED <<mainVars, call>>

CallSphere ==
    /\ call.fn = "Sphere.intersect"
    /\ ret = NotReturned
    /\ ret' = Returned(Sphere_intersect(call.self, call.origin, call.direction))
    /\ UNCHANGED <<mainVars, call>>

CallPlane ==
    /\ call.fn = "Plane.intersect"
    /\ ret = NotReturned
    /\ ret' = Returned(Plane_intersect(call.self, call.origin, call.direction))
    /\ UNCHANGED <<mainVars, call>>

CallIntersect ==
    /\ call.fn = "intersect"
    /\ ret = NotReturned
    /\ ret' = Returned(intersect(call.origin, call.direction, call.scene))
    /\ UNCHANGED <<mainVars, call>>

NextCalls == CallSolve \/ CallSphere \/ CallPlane \/ CallIntersect

SpecCalls == InitCalls /\ [][NextCalls]_vars

----------------------------------------------------------------------------
(* Claims about solve_quadratic_equation.                                  *)

\* The tolerance of the comparisons below: 1/100.
Eps == Scale \div 100

IsSolveReturn == call.fn = "solve_quadratic_equation" /\ ret.done

\* The sign-deciding part of the discriminant, computed exactly on the
\* doubled coefficients (integers): (2b)^2 - 4(2a)(2c) = 4 * delta.
Delta4(a, b, c) ==
    LET a2 == a \div (Scale \div 2)
        b2 == b \div (Scale \div 2)
        c2 == c \div (Scale \div 2)
    IN  b2 * b2 - 4 * a2 * c2

\* 2 * (a v^2 + b v + c) at the number v, computed exactly (in units of
\* 1/Scale^2).
Poly2(a, b, c, v) ==
    LET a2 == a \div (Scale \div 2)
        b2 == b \div (Scale \div 2)
        c2 == c \div (Scale \div 2)
    IN  a2 * v * v + b2 * v * Scale + c2 * Scale * Scale

\* A real root of a x^2 + b x + c lies within Eps of v: the polynomial
\* changes sign, or vanishes, between v - Eps and v + Eps.
NearRoot(a, b, c, v) ==
    LET lo == Poly2(a, b, c, v - Eps)
        hi == Poly2(a, b, c, v + Eps)
    IN  (lo <= 0 /\ hi >= 0) \/ (lo >= 0 /\ hi <= 0)

\* v is -b/(2a) rounded to the nearest representable number.
IsDoubleRoot(a, b, v) == Abs(2 * a * v + b * Scale) <= Abs(a)

\* C3: solve_quadratic_equation(a, b, c) with a # 0 returns the empty list
\* when delta < 0, the single root -b/(2a) when delta = 0, and when delta > 0
\* two values that are the two distinct real roots of a x^2 + b x + c (each
\* within the tolerance of a root, and further apart than two tolerances, so
\* they are not the same root twice); (1,-3,2) gives {1,2}, (1,2,5) gives
\* nothing and (1,-2,1) gives {1}.
C3_SolveRoots ==
    IsSolveReturn =>
        LET a == call.a
            b == call.b
            c == call.c
            r == ret.value
            d == Delta4(a, b, c)
        IN  /\ d < 0 => r = <<>>
            /\ d = 0 => Len(r) = 1 /\ IsDoubleRoot(a, b, r[1])
            /\ d > 0 => /\ Len(r) = 2
                        /\ NearRoot(a, b, c, r[1])
                        /\ NearRoot(a, b, c, r[2])
                        /\ Abs(r[1] - r[2]) > 2 * Eps
            /\ (a = Num(1) /\ b = Num(-3) /\ c = Num(2))
                   => {r[i] : i \in 1..Len(r)} = {Num(1), Num(2)}
            /\ (a = Num(1) /\ b = Num(2) /\ c = Num(5)) => r = <<>>
            /\ (a = Num(1) /\ b = Num(-2) /\ c = Num(1)) => r = <<Num(1)>>

\* A call with two distinct roots has returned, one root being 0 (c = 0, so
\* the second root is c/q = 0 with q # 0).
C3_Witness ==
    /\ IsSolveReturn
    /\ Delta4(call.a, call.b, call.c) > 0
    /\ call.c = 0
    /\ Len(ret.value) = 2

----------------------------------------------------------------------------
(* Claims about Sphere.intersect.                                          *)

IsSphereReturn == call.fn = "Sphere.intersect" /\ ret.done

\* u . v computed exactly, in units of 1/Scale^2.
ExactDot(u, v) == u.x * v.x + u.y * v.y + u.z * v.z

\* The roots of |O + tD - C|^2 = r^2, as the solver returns them.
SphereRoots(self, orig, direction) ==
    solve_quadratic_equation(
        Num(1),
        Mul(Num(2), Vector_dot(direction, Vector_sub(orig, self.pos))),
        Sub(Vector_dot(Vector_sub(orig, self.pos), Vector_sub(orig, self.pos)),
            Mul(self.radius, self.radius)))

NonNegative(roots) == {roots[i] : i \in {j \in 1..Len(roots) : roots[j] >= 0}}

SetMin(S) == CHOOSE m \in S : \A n \in S : m <= n

\* C1, as claimed: the roots with t < 0 are discarded and the smallest
\* non-negative root is chosen, so a Hit at O + t*D is returned whenever at
\* least one root is non-negative, and no Hit is returned only if no root is
\* non-negative.
C1_HitWheneverRootNonNegative ==
    IsSphereReturn =>
        LET nn == NonNegative(SphereRoots(call.self, call.origin, call.direction))
        IN  /\ nn # {} =>
                /\ ret.value # None
                /\ ret.value.pos =
                       Vector_add(call.origin,
                                  Vector_mul(call.direction, SetMin(nn)))
            /\ ret.value = None => nn = {}

\* The squared distance |O - C|^2 - r^2 of the origin to the sphere's
\* surface, exactly (the origin, centre and radius are integers).
OutsideBy(self, orig) ==
    LET oc == Vector_sub(orig, self.pos)
    IN  (ExactDot(oc, oc) - self.radius * self.radius) \div (Scale * Scale)

\* D . (O - C), exactly, in units of 1/Scale.
Toward(self, orig, direction) ==
    ExactDot(direction, Vector_sub(orig, self.pos)) \div Scale

\* The origin lies strictly outside the sphere and the forward half-line
\* meets it: the sphere is ahead and the discriminant (D.(O-C))^2 - c is not
\* negative.
OutsideAndMeets(self, orig, direction) ==
    /\ OutsideBy(self, orig) > 0
    /\ Toward(self, orig, direction) < 0
    /\ Toward(self, orig, direction) * Toward(self, orig, direction)
           - OutsideBy(self, orig) * Scale * Scale >= 0

\* C9: for a unit-direction ray whose origin lies strictly outside the sphere
\* and whose forward half-line meets it, Sphere.intersect returns a Hit whose
\* position lies on the sphere (within the tolerance), lies on the ray ahead
\* of the origin, and is the entry point (the direction does not point out of
\* the sphere there, so no point of the sphere on the ray is closer), and
\* whose normal is pos - center, of length radius, not renormalized; origin
\* (0,0,-5), direction (0,0,1) and the unit sphere at the origin give pos
\* (0,0,-1) and normal (0,0,-1).
C9_SphereNearestHit ==
    (IsSphereReturn /\ OutsideAndMeets(call.self, call.origin, call.direction))
    =>  LET h == ret.value
            s == call.self
            t == Vector_dot(Vector_sub(h.pos, call.origin), call.direction)
            along == Vector_sub(Vector_add(call.origin,
                                           Vector_mul(call.direction, t)),
                                h.pos)
        IN  /\ h # None
            /\ h.obj = s
            /\ h.normal = Vector_sub(h.pos, s.pos)
            /\ Abs(ExactDot(h.normal, h.normal) - s.radius * s.radius)
                   <= 2 * s.radius * Eps
            /\ t >= 0
            /\ Abs(along.x) <= Eps /\ Abs(along.y) <= Eps /\ Abs(along.z) <= Eps
            /\ ExactDot(call.direction, h.normal) <= Eps * Scale
            /\ (/\ call.origin = Vector(0, 0, Num(-5))
                /\ call.direction = Vector(0, 0, Num(1))
                /\ s.pos = Vector(0, 0, 0)
                /\ s.radius = Num(1))
               => /\ h.pos = Vector(0, 0, Num(-1))
                  /\ h.normal = Vector(0, 0, Num(-1))

\* A ray from outside that crosses the sphere obliquely (two distinct roots,
\* a direction that is not an axis) has been answered with a Hit.
C9_Witness ==
    /\ IsSphereReturn
    /\ OutsideAndMeets(call.self, call.origin, call.direction)
    /\ Len(SphereRoots(call.self, call.origin, call.direction)) = 2
    /\ call.direction.x # 0
    /\ call.direction.y # 0
    /\ call.direction.z # 0
    /\ call.self.radius = Num(2)
    /\ ret.value # None

----------------------------------------------------------------------------
(* Claims about Plane.intersect.                                           *)

IsPlaneReturn == call.fn = "Plane.intersect" /\ ret.done

\* C2, as claimed: for a ray not parallel to the plane the returned normal is
\* the plane's normal N negated when D.N > 0 and N unchanged otherwise, so
\* that (returned normal).D <= 0.
C2_NormalFacesRay ==
    (IsPlaneReturn /\ ExactDot(call.direction, call.self.normal) # 0)
    =>  /\ ret.value # None
        /\ ret.value.normal =
               (IF ExactDot(call.direction, call.self.normal) > 0
                THEN Vector_mul(call.self.normal, Num(-1))
                ELSE call.self.normal)
        /\ ExactDot(ret.value.normal, call.direction) <= 0

\* C10: Plane.intersect returns no Hit exactly when direction.normal is zero;
\* otherwise it returns a Hit at origin + direction * t with
\* t = ((P - origin).normal) / (direction.normal), whatever the sign of t,
\* and the position satisfies the plane's equation (within the tolerance).
C10_PlaneHit ==
    IsPlaneReturn =>
        LET s == call.self
            h == ret.value
            t == Div(Vector_dot(Vector_sub(s.pos, call.origin), s.normal),
                     Vector_dot(call.direction, s.normal))
        IN  /\ h = None <=> ExactDot(call.direction, s.normal) = 0
            /\ h # None =>
                /\ h.pos = Vector_add(call.origin,
                                      Vector_mul(call.direction, t))
                /\ Abs(ExactDot(Vector_sub(h.pos, s.pos), s.normal))
                       <= Eps * Scale

\* A plane behind the ray's origin (t < 0) has been answered with a Hit.
C10_Witness ==
    /\ IsPlaneReturn
    /\ ExactDot(call.direction, call.self.normal) # 0
    /\ Div(Vector_dot(Vector_sub(call.self.pos, call.origin), call.self.normal),
           Vector_dot(call.direction, call.self.normal)) < 0
    /\ ret.value # None

----------------------------------------------------------------------------
(* Claims about the scene query.                                           *)

IsQueryReturn == call.fn = "intersect" /\ ret.done

\* C4: intersect(origin, direction, scene) returns no Hit exactly when no
\* object of the scene returns one; otherwise it returns the Hit of an object
\* whose distance |hit.pos - origin| is at most that of every other object's
\* Hit, and among the objects at exactly that distance the first in scene
\* order.
C4_ClosestHit ==
    IsQueryReturn =>
        LET objs == call.scene
            h == [i \in 1..Len(objs) |->
                     Object_intersect(objs[i], call.origin, call.direction)]
            H == {i \in 1..Len(objs) : h[i] # None}
            dist(i) == Vector_size(Vector_sub(h[i].pos, call.origin))
        IN  /\ ret.value = None <=> H = {}
            /\ H # {} =>
                 \E i \in H :
                    /\ ret.value = h[i]
                    /\ \A j \in H : dist(i) <= dist(j)
                    /\ \A j \in H : dist(j) = dist(i) => i <= j

\* A query has returned for a scene in which a sphere and a plane, in this
\* order or the other, are hit at exactly the same smallest distance, and a
\* third object is hit farther away.
C4_Witness ==
    /\ IsQueryReturn
    /\ ret.value # None
    /\ LET objs == call.scene
           h == [i \in 1..Len(objs) |->
                    Object_intersect(objs[i], call.origin, call.direction)]
           H == {i \in 1..Len(objs) : h[i] # None}
           dist(i) == Vector_size(Vector_sub(h[i].pos, call.origin))
       IN  \E i, j, k \in H :
              /\ i < j
              /\ objs[i].kind # objs[j].kind
              /\ dist(i) = dist(j)
              /\ dist(k) > dist(i)
              /\ k < i
              /\ ret.value = h[i]

----------------------------------------------------------------------------
(* Claims about main.                                                      *)

\* The shadow query of a light for the hit h of a scene: the query of line
\* 219 over the scene without the hit object.
ShadowHit(objs, h, light) ==
    intersect(h.pos, Vector_normalize(Vector_sub(light.pos, h.pos)),
              reduced_scene(objs, h.obj))

\* The diffuse term of a light, lines 223-228.
DiffuseTerm(h, light) ==
    Color_mul(h.obj.color,
              diffuse(h, light.intensity,
                      Vector_normalize(Vector_sub(light.pos, h.pos))))

\* The ambient term, lines 230-232.
AmbientTerm(h, orig) ==
    Color_mul(h.obj.color,
              diffuse(h, Intensity(3),
                      Vector_normalize(Vector_sub(orig, h.pos))))

\* C5: in the turn of a light, if the shadow query over the reduced scene
\* returns a Hit the color is left as it is, and otherwise exactly the
\* light's diffuse term is added; the ambient term is added whatever the
\* shadow queries returned, and the pixel gets the truncated sum.
C5_OccludedLightAddsNothing ==
    [][/\ (pc = "light" /\ pc' # "ZeroDivisionError") =>
            color' = IF ShadowHit(scene, hit, lights[li]) # None
                     THEN color
                     ELSE Color_add(color, DiffuseTerm(hit, lights[li]))
       /\ (pc = "ambient" /\ pc' # "ZeroDivisionError") =>
            /\ color' = Color_add(color, AmbientTerm(hit, origin))
            /\ data'[<<x, y>>] = Color_to_rgb(color')]_vars

\* All lights of a hit pixel have had their turn: the first was not occluded
\* and added its diffuse term, the second was occluded and added nothing.
C5_Witness ==
    /\ pc = "ambient"
    /\ Len(lights) = 2
    /\ ShadowHit(scene, hit, lights[1]) = None
    /\ ShadowHit(scene, hit, lights[2]) # None
    /\ color = DiffuseTerm(hit, lights[1])
    /\ color # Color(0, 0, 0)

\* C6, as claimed: when no light's position coincides with a hit point, no
\* vector passed to Vector.normalize is the zero vector, so normalize never
\* divides by zero.
C6_NormalizeNeverDividesByZero ==
    pc = "ZeroDivisionError" =>
        /\ hit # None
        /\ \E i \in 1..Len(lights) : lights[i].pos = hit.pos

\* C7, as claimed: the reduced scene of a hit pixel is the scene without the
\* hit object itself: every other object of the scene is in it.
C7_ReducedSceneIsSceneMinusHitObject ==
    pc \in {"light", "ambient"} =>
        scene_without_obj =
            SelectSeq(scene, LAMBDA scene_obj : scene_obj.id # hit.obj.id)

\* The color main gives pixel p: black when the primary ray hits nothing,
\* else the truncated sum of the diffuse terms of the lights whose shadow
\* query returns nothing and of the ambient term.
RECURSIVE DiffuseSum(_, _, _, _)
DiffuseSum(objs, lts, h, n) ==
    IF n = 0
    THEN Color(0, 0, 0)
    ELSE IF ShadowHit(objs, h, lts[n]) # None
         THEN DiffuseSum(objs, lts, h, n - 1)
         ELSE Color_add(DiffuseSum(objs, lts, h, n - 1),
                        DiffuseTerm(h, lts[n]))

Rendered(objs, lts, p) ==
    LET orig == Vector(Num(p[1]), Num(p[2]), 0)
        h == intersect(orig,
                       Vector_normalize(
                           Vector_sub(orig, Vector(Px(250), Px(250), -pov_z))),
                       objs)
    IN  IF h = None
        THEN <<0, 0, 0>>
        ELSE Color_to_rgb(Color_add(DiffuseSum(objs, lts, h, Len(lts)),
                                    AmbientTerm(h, orig)))

\* C8: the pixel loop of main terminates (the image is saved, and no step
\* raises on the way); no pixel is ever assigned twice, and when the image
\* is saved every pixel has been assigned once, the background color when
\* its primary ray hits nothing and the truncated shaded color otherwise;
\* the scene and the lights never change.
C8_EveryPixelAssignedOnce ==
    /\ <>(pc = "done")
    /\ [](pc \in {"pixel", "light", "ambient", "save", "done"})
    /\ [](pc = "light" => li \in 1..Len(lights) /\ hit # None)
    /\ [](pc = "ambient" => hit # None)
    /\ [](\A p \in Pixels : writes[p] <= 1)
    /\ [](pc \in {"save", "done"} =>
            \A p \in Pixels :
               /\ writes[p] = 1
               /\ data[p] = Rendered(scene, lights, p))
    /\ [][scene' = scene /\ lights' = lights]_vars

\* The image has been saved with pixels of both kinds: one left black by a
\* primary ray that hits nothing, one shaded.
C8_Witness ==
    /\ pc = "done"
    /\ \E p, q \in Pixels :
          /\ data[p] = <<0, 0, 0>>
          /\ data[q] # <<0, 0, 0>>
          /\ data[q] # InitialFill

====
